---- MODULE Spec2Model ----
(***************************************************************************)
(* Citation highlighting (pdf-highlighter.tsx) and knowledge search        *)
(* (knowledge-search.tsx) of the knowledge-management frontend.            *)
(*                                                                         *)
(* Numbers.  The mapper multiplies page fractions by the page size, which  *)
(* the source writes as 967 and 747.2272727272727 (= 16439/22).  Lengths   *)
(* are kept exact as integers counting 1/Unit of a pixel, Unit being       *)
(* 22 * CoordDen; a page fraction is an integer k standing for             *)
(* k / CoordDen.                                                           *)
(***************************************************************************)
EXTENDS Integers, Sequences, FiniteSets, TLC

\* ------------------------------------------------------------------ bounds
CoordDen == 1
MaxBatch == 2
MaxBoxLen == 5
MaxHighlights == 3
MaxPage == 1
MaxLoadMore == 2
MaxGeneration == 2
MaxDigits == 3
MaxDiagnosticBatch == 5
MaxSessions == 2
MaxSaves == 2
MaxReads == 1
MaxPosts == 1
MaxViewResults == 3

\* --------------------------------------------------------------- variables
VARIABLES
    pdfUrl,              \* prop pdfUrl of PdfHighlighterComp
    citations,           \* prop citations: [present, list]
    highlights,          \* useState highlights
    processedCitations,  \* useState processedCitations
    lastCall,            \* the handler that ran last, with its arguments
    searchInputValue,    \* KnowledgeSearch: useState searchInputValue
    searchQuery,         \* KnowledgeSearch: useState searchQuery
    hasSearched,         \* KnowledgeSearch: useState hasSearched
    observer,            \* KnowledgeSearch: useRef observer, and what it observes
    searchResults,       \* prop searchResults (the aggregator's items)
    loading,             \* prop loading
    topK,                \* the aggregator's fetch cursor, updated through onTopKChange
    activeQuery,         \* the aggregator's query, set through onSearchQueryChange
    generation,          \* the aggregator's generation token
    inflight,            \* the fetches sent and not yet answered
    error,               \* the aggregator's error state, set by a failed fetch
    mounted,             \* the search view is mounted
    diagnostics,         \* the console calls of the mapper's last run
    request,             \* the query of a request to the search-history route
    validation,          \* what enterpriseSearchQuerySchema makes of it
    shown,               \* KnowledgeSearch: the view states a render shows
    open,                \* ConfigureServiceDialog: prop open
    serviceType,         \* ConfigureServiceDialog: prop serviceType
    isValid,             \* ConfigureServiceDialog: useState isValid
    isSaving,            \* ConfigureServiceDialog: useState isSaving
    dialogError,         \* ConfigureServiceDialog: useState dialogError
    saves,               \* the handleSave calls of the forms that have not settled
    session,             \* how often the dialog has been opened
    started,             \* how many handleSave calls the dialog has started
    formData,            \* GoogleWorkspaceConfigForm: useState formData
    errors,              \* GoogleWorkspaceConfigForm: the fields useState errors names
    formIsLoading,       \* GoogleWorkspaceConfigForm: useState isLoading
    formIsSaving,        \* GoogleWorkspaceConfigForm: useState isSaving
    saveError,           \* GoogleWorkspaceConfigForm: useState saveError
    saveSuccess,         \* GoogleWorkspaceConfigForm: useState saveSuccess
    isConfigured,        \* GoogleWorkspaceConfigForm: useState isConfigured
    fileName,            \* GoogleWorkspaceConfigForm: useState fileName
    fileUploadError,     \* GoogleWorkspaceConfigForm: useState fileUploadError
    redirectUris,        \* GoogleWorkspaceConfigForm: useState redirectUris
    initStep,            \* where initializeForm is: "uris", "config", "done"
    reads,               \* the FileReader reads that have not finished
    posts,               \* the configuration POSTs of handleSave not yet answered
    connectorsIsLoading, \* ConnectorSettings: useState isLoading
    errorMessage,        \* ConnectorSettings: useState errorMessage
    currentConnector,    \* ConnectorSettings: useState currentConnector
    checkingConfigs,     \* ConnectorSettings: useState checkingConfigs
    configuredStatus,    \* ConnectorSettings: useState configuredStatus
    enabledStatus,       \* ConnectorSettings: useState enabledStatus
    fetching             \* where fetchConnectorStatuses is: "mount", "status", "config", "done"

hvars == <<pdfUrl, citations, highlights, processedCitations, diagnostics, lastCall>>

svars == <<searchInputValue, searchQuery, hasSearched, observer, searchResults,
           loading, topK, activeQuery, generation, inflight, error, mounted, lastCall>>

kvars == <<searchInputValue, searchQuery, hasSearched, observer, searchResults,
           loading, topK, activeQuery, generation, inflight, error, mounted>>

pvars == <<pdfUrl, citations, highlights, processedCitations, diagnostics>>

qvars == <<request, validation>>

dvars == <<open, serviceType, isValid, isSaving, dialogError, saves, session, started>>

gvars == <<formData, errors, formIsLoading, formIsSaving, saveError, saveSuccess,
           isConfigured, fileName, fileUploadError, redirectUris, initStep, reads, posts>>

cvars == <<connectorsIsLoading, errorMessage, currentConnector, checkingConfigs, configuredStatus,
           enabledStatus, fetching>>

\* the variables an action of one component leaves alone
outsideHighlighter == <<kvars, qvars, shown, dvars, gvars, cvars>>
outsideSearch == <<pvars, qvars, shown, dvars, gvars, cvars>>
outsideValidator == <<pvars, kvars, lastCall, shown, dvars, gvars, cvars>>
outsideForm == <<pvars, kvars, qvars, shown, dvars, cvars>>
outsideConnectors == <<pvars, kvars, qvars, shown, dvars, gvars>>
outsideView == <<pvars, qvars, dvars, gvars, cvars, searchInputValue, searchQuery, hasSearched,
                 observer, searchResults, loading, topK, activeQuery, generation,
                 inflight, error, mounted>>
outsideDialog == <<pvars, kvars, qvars, shown, gvars, cvars>>

vars == <<pdfUrl, citations, highlights, processedCitations, diagnostics, lastCall,
          searchInputValue, searchQuery, hasSearched, observer, searchResults,
          loading, topK, activeQuery, generation, inflight, error, mounted,
          request, validation, shown,
          open, serviceType, isValid, isSaving, dialogError, saves, session, started,
          formData, errors, formIsLoading, formIsSaving, saveError, saveSuccess,
          isConfigured, fileName, fileUploadError, redirectUris, initStep, reads, posts,
          connectorsIsLoading, errorMessage, currentConnector, checkingConfigs, configuredStatus,
          enabledStatus, fetching>>

\* ------------------------------------------------------- the mapper's data
Unit == 22 * CoordDen

\* const PAGE_WIDTH = 967; const PAGE_HEIGHT = 747.2272727272727;
PAGE_WIDTH == 967 * Unit
PAGE_HEIGHT == 16439 * CoordDen

\* a page fraction k / CoordDen times a length
Times(k, length) == (k * length) \div CoordDen

\* a length rounded to hundredths of a pixel
Hundredths(length) == (200 * length + Unit) \div (2 * Unit)

\* pageDimensions(pageNumber): the sizes of the document's pages where they
\* are known (page 2 is A4 upright, 595 x 842), the fixed default elsewhere
KnownPageDimensions == [p \in {2} |-> [width |-> 595 * Unit, height |-> 842 * Unit]]

pageDimensions(pageNumber) ==
    IF pageNumber \in DOMAIN KnownPageDimensions THEN KnownPageDimensions[pageNumber]
    ELSE [width |-> PAGE_WIDTH, height |-> PAGE_HEIGHT]

Point(kx, ky) == [x |-> kx, y |-> ky]

Points == {Point(kx, ky) : kx \in 0..CoordDen, ky \in 0..CoordDen}

\* a bounding box of n entries whose corner 0 is p0 and whose corner 2 is p2
Box(p0, p2, n) ==
    [i \in 1..n |-> IF i = 3 THEN p2
                    ELSE IF i = 2 THEN Point(p2.x, p0.y)
                    ELSE IF i = 4 THEN Point(p0.x, p2.y)
                    ELSE p0]

\* String(Math.random()).slice(2): the digits of a random fraction (0.25, 0.5)
getNextId == {"25", "5"}

\* identifiers the backend assigns (metadata._id); "" stands for none
BackendIds == {"abc123", "25"}

PdfUrls == {"a.pdf", "b.pdf"}

\* a citation (DocumentContent): metadata may be missing, and so may
\* metadata.bounding_box; pageNum 0 and _id "" stand for the missing field
Citation(hasMetadata, hasBox, box, pageNum, id, content) ==
    [hasMetadata |-> hasMetadata, hasBox |-> hasBox, bounding_box |-> box,
     pageNum |-> pageNum, _id |-> id, content |-> content]

Origin == Point(0, 0)
Corner == Point(CoordDen, CoordDen)

\* boxes of 4 points: every corner 0 against the far corner, and every corner 2
\* against the origin
GeometryCitations ==
    {Citation(TRUE, TRUE, Box(p0, Corner, 4), 1, "abc123", "t") : p0 \in Points}
    \cup {Citation(TRUE, TRUE, Box(Origin, p2, 4), 1, "abc123", "t") : p2 \in Points}

\* with and without a backend identifier, a page number, a text
IdentityCitations ==
    {Citation(TRUE, TRUE, Box(Origin, Corner, 4), pg, id, "t") :
        pg \in {0, 2}, id \in BackendIds \cup {""}}
    \cup {Citation(TRUE, TRUE, Box(Origin, Corner, 4), 1, "", "")}

\* no metadata, no bounding_box, a bounding_box whose length is not 4
MalformedCitations ==
    {Citation(FALSE, FALSE, <<>>, 0, "", "t"), Citation(TRUE, FALSE, <<>>, 1, "abc123", "t")}
    \cup {Citation(TRUE, TRUE, Box(Origin, Corner, n), 1, "abc123", "t") :
            n \in (0..MaxBoxLen) \ {4}}

MapperCitations == GeometryCitations \cup IdentityCitations \cup MalformedCitations

Batches(S) == UNION {[1..n -> S] : n \in 0..MaxBatch}

\* the citations the component is given in the full specification: one with a
\* backend identifier, one without, one with a bounding box of 2 points
ComponentCitations ==
    {Citation(TRUE, TRUE, Box(Origin, Corner, 4), 1, id, "t") : id \in {"25", ""}}
    \cup {Citation(TRUE, TRUE, Box(Origin, Corner, 2), 1, "abc123", "t")}

ComponentBatches ==
    {<<>>} \cup {<<c>> : c \in ComponentCitations}
    \cup {<<c, d>> : c \in ComponentCitations, d \in ComponentCitations}

Absent == [present |-> FALSE, list |-> <<>>]
Given(list) == [present |-> TRUE, list |-> list]

\* ----------------------------------------------------------- the mapper
NULL == [isNull |-> TRUE]

\* { ...a, ...b }
Spread(a, b) == [f \in DOMAIN a \cup DOMAIN b |-> IF f \in DOMAIN b THEN b[f] ELSE a[f]]

mainRect_corner1(boundingBox, pageNum) ==
    [x1 |-> Times(boundingBox[1].x, PAGE_WIDTH),
     y1 |-> Times(boundingBox[1].y, PAGE_HEIGHT),
     x2 |-> Times(boundingBox[2].x, PAGE_WIDTH),
     y2 |-> Times(boundingBox[2].y, PAGE_HEIGHT),
     width |-> PAGE_WIDTH,
     height |-> PAGE_HEIGHT,
     pageNumber |-> IF pageNum # 0 THEN pageNum ELSE 1]

\* lines 57-65; boundingBox[0] and boundingBox[2] are entries 1 and 3 here
mainRect(boundingBox, pageNum) ==
    [x1 |-> Times(boundingBox[1].x, PAGE_WIDTH),
     y1 |-> Times(boundingBox[1].y, PAGE_HEIGHT),
     x2 |-> Times(boundingBox[3].x, PAGE_WIDTH),
     y2 |-> Times(boundingBox[3].y, PAGE_HEIGHT),
     width |-> PAGE_WIDTH,
     height |-> PAGE_HEIGHT,
     pageNumber |-> IF pageNum # 0 THEN pageNum ELSE 1]

assignedId_alwaysGenerated(citation, nextId) == nextId

\* line 80: citation.metadata._id || citation.metadata._id || getNextId()
assignedId(citation, nextId) ==
    IF citation._id # "" THEN citation._id ELSE nextId

invalidBoundingBox_below4(citation) ==
    \/ ~citation.hasMetadata
    \/ ~citation.hasBox
    \/ Len(citation.bounding_box) < 4

\* line 48: !boundingBox || boundingBox.length !== 4
invalidBoundingBox(citation) ==
    \/ ~citation.hasMetadata
    \/ ~citation.hasBox
    \/ Len(citation.bounding_box) # 4

processHighlightConsole_lengthOnly(citation) ==
    IF citation.hasMetadata /\ citation.hasBox /\ Len(citation.bounding_box) # 4
    THEN <<"warn">> ELSE <<>>

\* lines 48-51: the console calls of one processHighlight call, console.warn
\* before it returns null for an invalid bounding box
processHighlightConsole(citation) ==
    IF invalidBoundingBox(citation) THEN <<"warn">> ELSE <<>>

\* the console calls of citations.map(...), lines 149-153, in order
RECURSIVE mapConsole(_)
mapConsole(list) ==
    IF list = <<>> THEN <<>>
    ELSE processHighlightConsole(Head(list)) \o mapConsole(Tail(list))

\* nextId is what getNextId() returns if it is called
processHighlight(citation, nextId) ==
    IF invalidBoundingBox(citation) THEN NULL
    ELSE LET rect == mainRect(citation.bounding_box, citation.pageNum) IN
         [content |-> [text |-> citation.content],
          position |-> [boundingRect |-> rect, rects |-> <<rect>>,
                        pageNumber |-> rect.pageNumber],
          comment |-> [text |-> "", emoji |-> ""],
          id |-> assignedId(citation, nextId)]

\* lines 147-155: citations.map(...).filter((citation) => citation.highlight)
processed(list, ids) ==
    LET mapped == [i \in 1..Len(list) |->
                      Spread(list[i],
                             [highlight |-> processHighlight(list[i],
                                 IF i \in DOMAIN ids THEN ids[i] ELSE "")])]
    IN SelectSeq(mapped, LAMBDA c : c.highlight # NULL)

processCitationsWithHighlights_retaining(cits, ids) ==
    LET kept == SelectSeq(highlights, LAMBDA h : "image" \in DOMAIN h.content
                                                  \/ h.content.text = "sel")
    IN IF cits.present /\ Len(cits.list) > 0
       THEN LET p == processed(cits.list, ids) IN
            /\ processedCitations' = p
            /\ highlights' = kept \o [i \in 1..Len(p) |-> p[i].highlight]
            /\ diagnostics' = mapConsole(cits.list)
       ELSE /\ processedCitations' = <<>>
            /\ highlights' = kept
            /\ diagnostics' = <<>>

\* the effect on [pdfUrl, citations]: sets processedCitations and highlights
processCitationsWithHighlights(cits, ids) ==
    IF cits.present /\ Len(cits.list) > 0
    THEN LET p == processed(cits.list, ids) IN
         /\ processedCitations' = p
         /\ highlights' = [i \in 1..Len(p) |-> p[i].highlight]
         /\ diagnostics' = mapConsole(cits.list)
    ELSE /\ processedCitations' = <<>>
         /\ highlights' = <<>>
         /\ diagnostics' = <<>>

\* the citations of a list for which line 80 calls getNextId()
generated(list) ==
    {i \in 1..Len(list) : ~invalidBoundingBox(list[i]) /\ list[i]._id = ""}

\* the prop citations changes
SetCitations(batches) ==
    \E list \in batches, present \in BOOLEAN :
        /\ present \/ list = <<>>
        /\ citations' = [present |-> present, list |-> list]
        /\ \E ids \in [generated(list) -> getNextId] :
              processCitationsWithHighlights(citations', ids)
        /\ lastCall' = [op |-> "citations", replaced |-> Len(highlights)]
        /\ UNCHANGED pdfUrl
        /\ UNCHANGED outsideHighlighter

\* the prop pdfUrl changes
SetPdfUrl ==
    \E url \in PdfUrls \ {pdfUrl} :
        /\ pdfUrl' = url
        /\ \E ids \in [generated(citations.list) -> getNextId] :
              processCitationsWithHighlights(citations, ids)
        /\ lastCall' = [op |-> "pdfUrl", replaced |-> Len(highlights)]
        /\ UNCHANGED citations
        /\ UNCHANGED outsideHighlighter

\* ---------------------------------------------------- user interaction
\* positions the viewer reports for a selection (ScaledPosition)
UserRect(k) ==
    [x1 |-> k * Unit, y1 |-> k * Unit, x2 |-> 2 * k * Unit, y2 |-> 2 * k * Unit,
     width |-> PAGE_WIDTH, height |-> PAGE_HEIGHT, pageNumber |-> 1]

UserPosition == [boundingRect |-> UserRect(10), rects |-> <<UserRect(10)>>, pageNumber |-> 1]

\* what the viewer hands to addHighlight: a text selection confirmed without a
\* comment, or an area selection (with its screenshot) confirmed with one
UserSelections ==
    {[content |-> [text |-> "sel"], position |-> UserPosition, comment |-> NULL],
     [content |-> [image |-> "png"], position |-> UserPosition,
      comment |-> [text |-> "note", emoji |-> "!"]]}

addHighlight_appended(highlight) ==
    /\ Len(highlights) < MaxHighlights
    /\ \E id \in getNextId :
          highlights' =
              highlights \o
              <<Spread(highlight,
                       [id |-> id,
                        comment |-> IF highlight.comment # NULL THEN highlight.comment
                                    ELSE [text |-> "", emoji |-> ""]])>>
    /\ lastCall' = [op |-> "addHighlight", highlight |-> highlight]
    /\ UNCHANGED <<pdfUrl, citations, processedCitations, diagnostics>>
    /\ UNCHANGED outsideHighlighter

\* lines 168-177
addHighlight(highlight) ==
    /\ Len(highlights) < MaxHighlights
    /\ \E id \in getNextId :
          highlights' =
              <<Spread(highlight,
                       [id |-> id,
                        comment |-> IF highlight.comment # NULL THEN highlight.comment
                                    ELSE [text |-> "", emoji |-> ""]])>>
              \o highlights
    /\ lastCall' = [op |-> "addHighlight", highlight |-> highlight]
    /\ UNCHANGED <<pdfUrl, citations, processedCitations, diagnostics>>
    /\ UNCHANGED outsideHighlighter

\* Tip onConfirm, lines 238-241
OnConfirm ==
    \E selection \in UserSelections : addHighlight(selection)

updateHighlight_resorted(highlightId, position, content) ==
    /\ highlights' =
          LET updated == [i \in 1..Len(highlights) |->
                             IF highlights[i].id # highlightId THEN highlights[i]
                             ELSE Spread(highlights[i],
                                         [position |-> Spread(highlights[i].position, position),
                                          content |-> Spread(highlights[i].content, content)])]
          IN SelectSeq(updated, LAMBDA h : h.id = highlightId)
             \o SelectSeq(updated, LAMBDA h : h.id # highlightId)
    /\ lastCall' = [op |-> "updateHighlight", highlightId |-> highlightId,
                    position |-> position, content |-> content]
    /\ UNCHANGED <<pdfUrl, citations, processedCitations, diagnostics>>
    /\ UNCHANGED outsideHighlighter

\* lines 179-193
updateHighlight(highlightId, position, content) ==
    /\ highlights' =
          [i \in 1..Len(highlights) |->
              IF highlights[i].id # highlightId THEN highlights[i]
              ELSE Spread(highlights[i],
                          [position |-> Spread(highlights[i].position, position),
                           content |-> Spread(highlights[i].content, content)])]
    /\ lastCall' = [op |-> "updateHighlight", highlightId |-> highlightId,
                    position |-> position, content |-> content]
    /\ UNCHANGED <<pdfUrl, citations, processedCitations, diagnostics>>
    /\ UNCHANGED outsideHighlighter

\* line 253: a highlight is an area highlight when its content has an image
isTextHighlight(highlight) ==
    ~("image" \in DOMAIN highlight.content /\ highlight.content.image # "")

\* AreaHighlight onChange, lines 274-280
OnAreaChange ==
    \E i \in 1..Len(highlights) :
        /\ ~isTextHighlight(highlights[i])
        /\ updateHighlight(highlights[i].id,
                           [boundingRect |-> UserRect(20)],
                           [image |-> "png2"])

\* ------------------------------------------------------ knowledge search
\* what the user types in the search field
Inputs == {"", "foo", "bar"}

\* a result of query q, the n-th the backend ranks for it
Result(q, n) == [query |-> q, rank |-> n]

\* the fetch cursor's initial value
INITIAL_TOPK == 10

\* line 224: prevTopK + 10
TOPK_INCREMENT == 10

nextTopK_twice(prevTopK) == prevTopK + 2 * TOPK_INCREMENT

\* line 224: the updater handed to onTopKChange
nextTopK(prevTopK) == prevTopK + TOPK_INCREMENT

\* the card of the last result (line 572 gives it the ref), as a set: empty when
\* no result is rendered
lastResultElement(results) ==
    IF results = <<>> THEN {} ELSE {results[Len(results)]}

lastResultElementRef_leaky(isLoading, node, obs) ==
    IF isLoading THEN obs
    ELSE [current |-> TRUE, observing |-> obs.observing \cup node]

lastResultElementRef_unguarded(isLoading, node, obs) ==
    [current |-> TRUE, observing |-> node]

\* lines 218-230, called with the loading of the render that created it; node
\* is the element as a set, empty for null; the result is observer.current
lastResultElementRef(isLoading, node, obs) ==
    IF isLoading THEN obs
    ELSE [current |-> TRUE, observing |-> node]

\* React commits a render: a ref callback runs when its identity changed (its
\* dependency loading changed) or when the element holding it changed; the old
\* callback is called with null, then the new one with the element
Commit(oldLoading, oldResults, newLoading, newResults, obs) ==
    LET old == lastResultElement(oldResults)
        new == lastResultElement(newResults)
        detached == IF old # {} THEN lastResultElementRef(oldLoading, {}, obs) ELSE obs
    IN IF oldLoading = newLoading /\ old = new THEN obs
       ELSE IF new # {} THEN lastResultElementRef(newLoading, new, detached)
       ELSE detached

Rerender == observer' = Commit(loading, searchResults, loading', searchResults', observer)

\* a fetch sent to the retrieval backend: search(query, cursor)
Fetch(token, kind, q, offset) ==
    [token |-> token, kind |-> kind, query |-> q, offset |-> offset]

\* submitQuery(q): Any state --> Loading
submitQuery(q) ==
    /\ activeQuery' = q
    /\ generation' = generation + 1
    /\ topK' = INITIAL_TOPK
    /\ searchResults' = <<>>
    /\ loading' = TRUE
    /\ error' = FALSE
    /\ inflight' = inflight \cup {Fetch(generation + 1, "query", q, 0)}

\* clear(): Any state --> Idle
clear ==
    /\ activeQuery' = ""
    /\ generation' = generation + 1
    /\ topK' = INITIAL_TOPK
    /\ searchResults' = <<>>
    /\ loading' = FALSE
    /\ error' = FALSE
    /\ UNCHANGED inflight

\* the prop onSearchQueryChange: the child clears by passing ''
onSearchQueryChange(q) ==
    IF q = "" THEN clear ELSE submitQuery(q)

\* the prop onTopKChange: Populated --scrolledToSentinel--> Loading; updated is
\* the caller's updater applied to the cursor held
onTopKChange(updated) ==
    /\ topK' = updated
    /\ loading' = TRUE
    /\ inflight' = inflight \cup {Fetch(generation, "more", activeQuery, Len(searchResults))}
    /\ UNCHANGED <<activeQuery, generation, searchResults, error>>

\* the page a fetch returns: m results ranked after the offset
Page(fetch, m) == [i \in 1..m |-> Result(fetch.query, fetch.offset + i)]

acceptPage_always(fetch, page) ==
    /\ loading' = FALSE
    /\ searchResults' = IF fetch.kind = "query" THEN page ELSE searchResults \o page

acceptPage_replacing(fetch, page) ==
    IF fetch.token # generation
    THEN UNCHANGED <<searchResults, loading>>
    ELSE /\ loading' = FALSE
         /\ searchResults' = page

\* Loading --fetchSucceeds(page)--> Populated or Exhausted; a response whose
\* token is not the current generation is discarded
acceptPage(fetch, page) ==
    IF fetch.token # generation
    THEN UNCHANGED <<searchResults, loading>>
    ELSE /\ loading' = FALSE
         /\ searchResults' = IF fetch.kind = "query" THEN page ELSE searchResults \o page

\* a fetch is answered
FetchSucceeds ==
    \E fetch \in inflight, m \in 0..MaxPage :
        /\ mounted
        /\ inflight' = inflight \ {fetch}
        /\ acceptPage(fetch, Page(fetch, m))
        /\ Rerender
        /\ lastCall' = [op |-> "fetchSucceeds", fetch |-> fetch, page |-> Page(fetch, m),
                        stale |-> fetch.token # generation]
        /\ UNCHANGED <<searchInputValue, searchQuery, hasSearched, topK, activeQuery,
                       generation, error, mounted>>
        /\ UNCHANGED outsideSearch

\* fetchFails: the items are left untouched, the state goes back to the prior
\* visible state and an error is surfaced; a stale failure is discarded
rejectFetch(fetch) ==
    IF fetch.token # generation
    THEN UNCHANGED <<searchResults, loading, error>>
    ELSE /\ loading' = FALSE
         /\ error' = TRUE
         /\ UNCHANGED searchResults

\* a fetch fails (network or backend error)
FetchFails ==
    \E fetch \in inflight :
        /\ mounted
        /\ inflight' = inflight \ {fetch}
        /\ rejectFetch(fetch)
        /\ Rerender
        /\ lastCall' = [op |-> "fetchFails", fetch |-> fetch,
                        stale |-> fetch.token # generation]
        /\ UNCHANGED <<searchInputValue, searchQuery, hasSearched, topK, activeQuery,
                       generation, mounted>>
        /\ UNCHANGED outsideSearch

\* lines 240-242, and the field's clear button, line 375
handleInputChange ==
    \E value \in Inputs \ {searchInputValue} :
        /\ mounted
        /\ searchInputValue' = value
        /\ lastCall' = [op |-> "handleInputChange"]
        /\ UNCHANGED <<searchQuery, hasSearched, observer, searchResults, loading, topK,
                       activeQuery, generation, inflight, error, mounted>>
        /\ UNCHANGED outsideSearch

handleSearch_forgetful ==
    /\ searchQuery' = searchInputValue
    /\ onSearchQueryChange(searchInputValue)
    /\ Rerender
    /\ lastCall' = [op |-> "handleSearch", query |-> searchInputValue]
    /\ UNCHANGED <<searchInputValue, hasSearched, mounted>>
    /\ UNCHANGED outsideSearch

\* lines 232-238
handleSearch ==
    /\ searchQuery' = searchInputValue
    /\ hasSearched' = TRUE
    /\ onSearchQueryChange(searchInputValue)
    /\ Rerender
    /\ lastCall' = [op |-> "handleSearch", query |-> searchInputValue]
    /\ UNCHANGED <<searchInputValue, mounted>>
    /\ UNCHANGED outsideSearch

\* the Search button, lines 384-388: disabled={!searchInputValue.trim() || loading}
OnSearchClick ==
    /\ mounted
    /\ generation < MaxGeneration
    /\ searchInputValue # ""
    /\ ~loading
    /\ handleSearch

\* lines 244-248, the key being Enter
handleKeyPress ==
    /\ mounted
    /\ generation < MaxGeneration
    /\ handleSearch

\* lines 316-319
showInitialState == ~hasSearched /\ Len(searchResults) = 0
showNoResultsState == hasSearched /\ Len(searchResults) = 0 /\ ~loading
showResultsState == Len(searchResults) > 0
showLoadingState == loading /\ ~showResultsState

\* lines 423, 457, 502, 558: each flag renders its own block
renderView ==
    /\ mounted
    /\ shown' = {view \in {"initial", "loading", "noResults", "results"} :
                    \/ view = "initial" /\ showInitialState
                    \/ view = "loading" /\ showLoadingState
                    \/ view = "noResults" /\ showNoResultsState
                    \/ view = "results" /\ showResultsState}
    /\ lastCall' = [op |-> "render"]
    /\ UNCHANGED outsideView

\* lines 250-256; the button is rendered in the no-results state, line 490
clearSearch ==
    /\ mounted
    /\ generation < MaxGeneration
    /\ showNoResultsState
    /\ searchInputValue' = ""
    /\ searchQuery' = ""
    /\ onSearchQueryChange("")
    /\ Rerender
    /\ lastCall' = [op |-> "clearSearch"]
    /\ UNCHANGED <<hasSearched, mounted>>
    /\ UNCHANGED outsideSearch

\* the user scrolls the last result into view; the IntersectionObserver's
\* callback, lines 222-226, runs if the observer observes that element
ScrollToSentinel ==
    /\ mounted
    /\ showResultsState
    /\ IF lastResultElement(searchResults) \subseteq observer.observing
       THEN /\ topK < INITIAL_TOPK + MaxLoadMore * TOPK_INCREMENT
            /\ onTopKChange(nextTopK(topK))
            /\ Rerender
            /\ lastCall' = [op |-> "sentinel", delivered |-> TRUE]
       ELSE /\ lastCall' = [op |-> "sentinel", delivered |-> FALSE]
            /\ UNCHANGED <<observer, searchResults, loading, topK, activeQuery,
                           generation, inflight, error>>
    /\ UNCHANGED <<searchInputValue, searchQuery, hasSearched, mounted>>
    /\ UNCHANGED outsideSearch

\* React unmounts the view: a ref that is attached is called with null; the
\* component registers no other cleanup
Unmount ==
    /\ mounted
    /\ mounted' = FALSE
    /\ observer' = IF lastResultElement(searchResults) # {}
                   THEN lastResultElementRef(loading, {}, observer)
                   ELSE observer
    /\ lastCall' = [op |-> "unmount"]
    /\ UNCHANGED <<searchInputValue, searchQuery, hasSearched, searchResults, loading,
                   topK, activeQuery, generation, inflight, error>>
    /\ UNCHANGED outsideSearch

\* ------------------------------------------- the search query validator
\* values as zod sees them: undefined, a string (its characters), NaN, a number
UNDEFINED == [kind |-> "undefined"]
Str(chars) == [kind |-> "string", chars |-> chars]
NaN == [kind |-> "nan"]
Num(n) == [kind |-> "number", value |-> n]

DecimalDigits == <<"0", "1", "2", "3", "4", "5", "6", "7", "8", "9">>

IsDigit(c) == \E i \in DOMAIN DecimalDigits : DecimalDigits[i] = c

DigitValue(c) == (CHOOSE i \in DOMAIN DecimalDigits : DecimalDigits[i] = c) - 1

RECURSIVE DecimalValue(_)
DecimalValue(chars) ==
    IF chars = <<>> THEN 0
    ELSE 10 * DecimalValue(SubSeq(chars, 1, Len(chars) - 1)) + DigitValue(chars[Len(chars)])

AllDigits(chars) == chars # <<>> /\ \A i \in DOMAIN chars : IsDigit(chars[i])

\* Number(arg), line 128: undefined gives NaN, '' gives 0, a decimal numeral
\* with an optional sign gives its value, any other string gives NaN
Number(arg) ==
    IF arg.kind = "number" THEN arg
    ELSE IF arg.kind # "string" THEN NaN
    ELSE IF arg.chars = <<>> THEN Num(0)
    ELSE IF AllDigits(arg.chars) THEN Num(DecimalValue(arg.chars))
    ELSE IF Head(arg.chars) = "-" /\ AllDigits(Tail(arg.chars))
         THEN Num(0 - DecimalValue(Tail(arg.chars)))
    ELSE NaN

ParseOk(data) == [success |-> TRUE, data |-> data]
ParseFail == [success |-> FALSE]

\* .default(d): an undefined input is replaced by d before the inner schema
zDefault(input, d) == IF input = UNDEFINED THEN Num(d) ELSE input

\* z.number().min(lo): NaN is not a number
zNumberMin(input, lo) ==
    IF input.kind = "number" /\ input.value >= lo THEN ParseOk(input.value) ELSE ParseFail

\* z.number().min(lo).max(hi)
zNumberMinMax(input, lo, hi) ==
    IF input.kind = "number" /\ input.value >= lo /\ input.value <= hi
    THEN ParseOk(input.value) ELSE ParseFail

\* z.string({ required_error }).min(1)
zStringMin1(input) ==
    IF input.kind = "string" /\ Len(input.chars) >= 1 THEN ParseOk(input) ELSE ParseFail

\* z.enum(values).optional()
zEnumOptional(input, values) ==
    IF input = UNDEFINED \/ input \in values THEN ParseOk(input) ELSE ParseFail

\* line 128: z.preprocess((arg) => Number(arg), z.number().min(1).default(1))
pageSchema(arg) == zNumberMin(zDefault(Number(arg), 1), 1)

\* lines 129-132: z.preprocess((arg) => Number(arg),
\*                             z.number().min(1).max(100).default(10))
limitSchema(arg) == zNumberMinMax(zDefault(Number(arg), 10), 1, 100)

CreatedAt == Str(<<"c", "r", "e", "a", "t", "e", "d", "A", "t">>)
Title == Str(<<"t", "i", "t", "l", "e">>)
Asc == Str(<<"a", "s", "c">>)
Desc == Str(<<"d", "e", "s", "c">>)

\* lines 123-136: the schema applied to req.query
enterpriseSearchQuerySchema(query) ==
    LET q == zStringMin1(query.query)
        page == pageSchema(query.page)
        limit == limitSchema(query.limit)
        sortBy == zEnumOptional(query.sortBy, {CreatedAt, Title})
        sortOrder == zEnumOptional(query.sortOrder, {Asc, Desc})
    IN IF q.success /\ page.success /\ limit.success /\ sortBy.success /\ sortOrder.success
       THEN ParseOk([query |-> q.data, page |-> page.data, limit |-> limit.data,
                     sortBy |-> sortBy.data, sortOrder |-> sortOrder.data])
       ELSE ParseFail

\* numerals of the digits 0 and 1, up to MaxDigits long: 0, 1, 10, 100, 101, ...
Numerals == UNION {[1..n -> {"0", "1"}] : n \in 0..MaxDigits}

\* what a client may put in page or limit: nothing, a numeral, a word, a
\* negative numeral
NumberArgs ==
    {UNDEFINED} \cup {Str(chars) : chars \in Numerals}
    \cup {Str(<<"a">>), Str(<<"-", "1">>)}

Requests ==
    [query : {UNDEFINED, Str(<<>>), Str(<<"q">>)},
     page : NumberArgs,
     limit : NumberArgs,
     sortBy : {UNDEFINED, Title, Str(<<"x">>)},
     sortOrder : {UNDEFINED, Asc}]

NoRequest == [kind |-> "none"]
Pending == [kind |-> "pending"]

\* the validation middleware applies the schema to the request
validate ==
    /\ validation = Pending
    /\ validation' = enterpriseSearchQuerySchema(request)
    /\ UNCHANGED request
    /\ UNCHANGED outsideValidator

\* ------------------------------------------------ ConfigureServiceDialog
\* the keys of SERVICE_CONFIG the dialog is opened for
ServiceTypes == {"redis", "kafka"}

NoService == "none"

\* what a form's handleSave settles with: a boolean, undefined, a SaveResult
\* (error '' standing for no error text), or a thrown error
Bool(b) == [kind |-> "boolean", value |-> b]
SaveResult(success, errorText) == [kind |-> "object", success |-> success, error |-> errorText]
Thrown == [kind |-> "throw"]

SaveOutcomes ==
    {Bool(TRUE), Bool(FALSE), UNDEFINED, Thrown,
     SaveResult(TRUE, ""), SaveResult(FALSE, ""), SaveResult(FALSE, "refused")}

Err(text) == [text |-> text]
Unset == [kind |-> "unset"]

handleSaveResult_trusting(result) ==
    IF result.kind = "throw"
    THEN [setDialogError |-> Err("An unexpected error occurred"),
          onSave |-> SaveResult(FALSE, "An unexpected error occurred while saving configuration")]
    ELSE IF result = Bool(FALSE)
    THEN [setDialogError |-> Err("Failed to save configuration"), onSave |-> NULL]
    ELSE IF result.kind = "object"
    THEN [setDialogError |-> Unset, onSave |-> result]
    ELSE [setDialogError |-> Unset, onSave |-> SaveResult(TRUE, "")]

\* lines 478-516, after the await: the value setDialogError is called with
\* (Unset if it is not called) and the argument of onSave (NULL if it is not
\* called)
handleSaveResult(result) ==
    IF result.kind = "throw"
    THEN [setDialogError |-> Err("An unexpected error occurred"),
          onSave |-> SaveResult(FALSE, "An unexpected error occurred while saving configuration")]
    ELSE IF result = Bool(FALSE)
    THEN [setDialogError |-> Err("Failed to save configuration"), onSave |-> NULL]
    ELSE IF result.kind = "object"
    THEN IF result.success
         THEN [setDialogError |-> Unset, onSave |-> result]
         ELSE [setDialogError |-> Err(IF result.error # "" THEN result.error
                                      ELSE "Failed to save configuration"),
               onSave |-> NULL]
    ELSE [setDialogError |-> Unset, onSave |-> SaveResult(TRUE, "")]

\* lines 439-443, run by every render: if (!open) { ... setIsSaving(false) }
renderIsSaving(isOpen, saving) == IF ~isOpen THEN FALSE ELSE saving

\* lines 439-443: if (!open) { if (dialogError) setDialogError(null) ... }
renderDialogError(isOpen, err) == IF ~isOpen THEN NULL ELSE err

\* the parent opens the dialog for a service
OpenDialog ==
    /\ ~open
    /\ session < MaxSessions
    /\ open' = TRUE
    /\ session' = session + 1
    /\ \E type \in ServiceTypes : serviceType' = type
    /\ isSaving' = renderIsSaving(TRUE, isSaving)
    /\ dialogError' = renderDialogError(TRUE, dialogError)
    /\ lastCall' = [op |-> "openDialog"]
    /\ UNCHANGED <<isValid, saves, started>>
    /\ UNCHANGED outsideDialog

\* onClose (the close icon, Cancel, the backdrop): the parent closes the dialog
CloseDialog ==
    /\ open
    /\ open' = FALSE
    /\ isSaving' = renderIsSaving(FALSE, isSaving)
    /\ dialogError' = renderDialogError(FALSE, dialogError)
    /\ lastCall' = [op |-> "closeDialog"]
    /\ UNCHANGED <<serviceType, isValid, saves, session, started>>
    /\ UNCHANGED outsideDialog

\* lines 446-448, called by the form that is mounted
handleValidationChange ==
    /\ open
    /\ \E valid \in BOOLEAN \ {isValid} : isValid' = valid
    /\ lastCall' = [op |-> "handleValidationChange"]
    /\ UNCHANGED <<open, serviceType, isSaving, dialogError, saves, session, started>>
    /\ UNCHANGED outsideDialog

\* lines 451-487, up to the await; the Save button, lines 677-681, is disabled
\* unless isValid && !isSaving
handleSaveClick ==
    /\ open
    /\ isValid /\ ~isSaving
    /\ started < MaxSaves
    /\ dialogError' = NULL
    /\ IF serviceType \in ServiceTypes
       THEN /\ isSaving' = TRUE
            /\ saves' = saves \cup {[session |-> session, call |-> started + 1]}
            /\ started' = started + 1
       ELSE /\ isSaving' = FALSE
            /\ UNCHANGED <<saves, started>>
    /\ lastCall' = [op |-> "handleSaveClick"]
    /\ UNCHANGED <<open, serviceType, isValid, session>>
    /\ UNCHANGED outsideDialog

\* lines 487-526, from the await on: a handleSave call settles
SaveSettles ==
    \E save \in saves, result \in SaveOutcomes :
        LET effect == handleSaveResult(result) IN
        /\ saves' = saves \ {save}
        /\ dialogError' = renderDialogError(open, IF effect.setDialogError = Unset
                                                  THEN dialogError
                                                  ELSE effect.setDialogError)
        /\ isSaving' = renderIsSaving(open, FALSE)
        /\ lastCall' = [op |-> "saveSettles", save |-> save, result |-> result,
                        setDialogError |-> effect.setDialogError,
                        onSave |-> effect.onSave]
        /\ UNCHANGED <<open, serviceType, isValid, session, started>>
        /\ UNCHANGED outsideDialog

\* --------------------------------------------- GoogleWorkspaceConfigForm
\* URLs are sequences of pieces, so that appending and endsWith are computed
WindowLocation == <<"https://host", "/", "settings">>

SettingsPath == "account/individual/settings/connector/googleWorkspace"

\* what /configurationManager/frontendPublicUrl answers with as url
FrontendBaseUrls == {<<"https://app">>, <<"https://app", "/">>, <<>>}

\* lines 44-46
frontendUrl(frontendBaseUrl) ==
    IF frontendBaseUrl # <<>> /\ frontendBaseUrl[Len(frontendBaseUrl)] = "/"
    THEN frontendBaseUrl \o <<SettingsPath>>
    ELSE frontendBaseUrl \o <<"/", SettingsPath>>

\* lines 33-61: response is the answer of the GET, NULL if it failed
getRedirectUris(response) ==
    IF response # NULL
    THEN [currentWindowLocation |-> WindowLocation,
          recommendedRedirectUri |-> frontendUrl(response.url),
          urisMismatch |-> WindowLocation # frontendUrl(response.url)]
    ELSE [currentWindowLocation |-> WindowLocation,
          recommendedRedirectUri |-> WindowLocation,
          urisMismatch |-> FALSE]

\* z.string().url(): an absolute URL, which starts with a scheme and a host
isUrl(chars) == chars # <<>> /\ Head(chars) \in {"https://app", "https://host", "https://other"}

\* lines 64-68, googleWorkspaceConfigSchema: the fields that fail
googleWorkspaceConfigSchema(data) ==
    {f \in {"clientId", "clientSecret"} : data[f] = ""}
    \cup (IF isUrl(data.redirectUri) THEN {} ELSE {"redirectUri"})

\* a credentials file: not JSON, or JSON in one of the formats of lines 204-232
Json(value) == [kind |-> "json", value |-> value]

FileContents ==
    {[kind |-> "garbage"], Json([other |-> "x"])}
    \cup {Json([web |-> [client_id |-> id, client_secret |-> "s2"]]) : id \in {"", "c2"}}
    \cup {Json([installed |-> [client_id |-> "c2", client_secret |-> ""]])}
    \cup {Json([clientId |-> id, clientSecret |-> "s2"]) : id \in {"", "c2"}}

\* the configuration GET /connectors/config answers with: a failure, no data,
\* or data in which a field may be missing
ConfigResponses ==
    {[kind |-> "error"], [kind |-> "empty"]}
    \cup {[kind |-> "data", googleClientId |-> id, googleClientSecret |-> "s0"] : id \in {"", "c0"}}

\* lines 139-158: the effect on [formData, onValidationChange]
validateForm == errors' = googleWorkspaceConfigSchema(formData')

\* lines 99-110: getRedirectUris has answered
UrisFetchSettles ==
    /\ initStep = "uris"
    /\ \E response \in {NULL} \cup {[url |-> base] : base \in FrontendBaseUrls} :
          LET uris == getRedirectUris(response) IN
          /\ redirectUris' = uris
          /\ formData' = Spread(formData, [redirectUri |-> uris.recommendedRedirectUri])
    /\ validateForm
    /\ initStep' = "config"
    /\ lastCall' = [op |-> "urisFetchSettles"]
    /\ UNCHANGED <<formIsLoading, formIsSaving, saveError, saveSuccess, isConfigured,
                   fileName, fileUploadError, reads, posts>>
    /\ UNCHANGED outsideForm

\* lines 112-133: the configuration GET has answered
FormConfigFetchSettles ==
    /\ initStep = "config"
    /\ \E response \in ConfigResponses :
          /\ IF response.kind = "data"
             THEN /\ formData' = [clientId |-> response.googleClientId,
                                  clientSecret |-> response.googleClientSecret,
                                  redirectUri |-> redirectUris.recommendedRedirectUri]
                  /\ isConfigured' = TRUE
             ELSE UNCHANGED <<formData, isConfigured>>
          /\ saveError' = IF response.kind = "error"
                          THEN Err("Failed to fetch configuration.") ELSE saveError
    /\ validateForm
    /\ formIsLoading' = FALSE
    /\ initStep' = "done"
    /\ lastCall' = [op |-> "configFetchSettles"]
    /\ UNCHANGED <<formIsSaving, saveSuccess, fileName, fileUploadError, redirectUris,
                   reads, posts>>
    /\ UNCHANGED outsideForm

handleChange_unguarded(name, value) ==
    /\ formData' = Spread(formData, [f \in {name} |-> value])
    /\ validateForm

\* lines 166-176
handleChange(name, value) ==
    IF name = "redirectUri" THEN UNCHANGED <<formData, errors>>
    ELSE /\ formData' = Spread(formData, [f \in {name} |-> value])
         /\ validateForm

\* the user edits a field; the fields are rendered once isLoading is false
OnFieldChange ==
    /\ ~formIsLoading
    /\ \E edit \in ({"clientId", "clientSecret"} \X {"", "c1"})
                   \cup {<<"redirectUri", <<"https://other">>>>} :
          /\ edit[1] # "redirectUri" => formData[edit[1]] # edit[2]
          /\ handleChange(edit[1], edit[2])
          /\ lastCall' = [op |-> "handleChange", name |-> edit[1]]
    /\ UNCHANGED <<formIsLoading, formIsSaving, saveError, saveSuccess, isConfigured,
                   fileName, fileUploadError, redirectUris, initStep, reads, posts>>
    /\ UNCHANGED outsideForm

\* lines 186-240, up to reader.readAsText: the user picks a credentials file
handleFileChange ==
    /\ ~formIsLoading
    /\ Cardinality(reads) < MaxReads
    /\ \E content \in FileContents :
          reads' = reads \cup {[content |-> content,
                                currentRedirectUri |-> formData.redirectUri]}
    /\ fileName' = Str("credentials.json")
    /\ fileUploadError' = NULL
    /\ lastCall' = [op |-> "handleFileChange"]
    /\ UNCHANGED <<formData, errors, formIsLoading, formIsSaving, saveError, saveSuccess,
                   isConfigured, redirectUris, initStep, posts>>
    /\ UNCHANGED outsideForm

\* lines 195-236, reader.onload: the credentials of a parsed file
fileCredentials(json) ==
    IF "web" \in DOMAIN json
    THEN [clientId |-> json.web.client_id, clientSecret |-> json.web.client_secret]
    ELSE IF "installed" \in DOMAIN json
    THEN [clientId |-> json.installed.client_id, clientSecret |-> json.installed.client_secret]
    ELSE IF "clientId" \in DOMAIN json /\ json.clientId # ""
    THEN [clientId |-> json.clientId, clientSecret |-> json.clientSecret]
    ELSE NULL

\* reader.onload runs
FileReadSettles ==
    /\ \E read \in reads :
          /\ reads' = reads \ {read}
          /\ IF read.content.kind # "json"
             THEN /\ fileUploadError' =
                        Err("Error parsing JSON file. Please ensure it is a valid JSON.")
                  /\ UNCHANGED <<formData, errors>>
             ELSE IF fileCredentials(read.content.value) = NULL
             THEN /\ fileUploadError' =
                        Err("Invalid JSON format. Could not find client credentials.")
                  /\ UNCHANGED <<formData, errors>>
             ELSE /\ formData' = Spread(fileCredentials(read.content.value),
                                        [redirectUri |-> read.currentRedirectUri])
                  /\ validateForm
                  /\ UNCHANGED fileUploadError
    /\ lastCall' = [op |-> "fileRead"]
    /\ UNCHANGED <<formIsLoading, formIsSaving, saveError, saveSuccess, isConfigured,
                   fileName, redirectUris, initStep, posts>>
    /\ UNCHANGED outsideForm

\* lines 248-292, up to the await of the POST: the parent calls handleSave
\* through the ref
handleSave ==
    /\ posts < MaxPosts
    /\ saveSuccess' = FALSE
    /\ IF googleWorkspaceConfigSchema(formData) # {}
       THEN /\ errors' = googleWorkspaceConfigSchema(formData)
            /\ saveError' = Err("Please correct the form errors before saving")
            /\ formIsSaving' = FALSE
            /\ UNCHANGED posts
       ELSE /\ saveError' = NULL
            /\ formIsSaving' = TRUE
            /\ posts' = posts + 1
            /\ UNCHANGED errors
    /\ lastCall' = [op |-> "handleSave"]
    /\ UNCHANGED <<formData, formIsLoading, isConfigured, fileName, fileUploadError,
                   redirectUris, initStep, reads>>
    /\ UNCHANGED outsideForm

\* lines 259-291: the POST has answered
PostSettles ==
    /\ posts > 0
    /\ posts' = posts - 1
    /\ \E ok \in BOOLEAN :
          IF ok THEN /\ isConfigured' = TRUE
                     /\ saveSuccess' = TRUE
                     /\ UNCHANGED saveError
          ELSE /\ saveError' = Err("Failed to save Google Workspace configuration")
               /\ UNCHANGED <<isConfigured, saveSuccess>>
    /\ formIsSaving' = FALSE
    /\ lastCall' = [op |-> "postSettles"]
    /\ UNCHANGED <<formData, errors, formIsLoading, fileName, fileUploadError,
                   redirectUris, initStep, reads>>
    /\ UNCHANGED outsideForm

\* ---------------------------------------------------- ConnectorSettings
\* the ids of CONNECTORS_LIST
ConnectorList == {"googleWorkspace"}

\* Boolean(connector.isEnabled)
Boolean(value) == value = Bool(TRUE)

\* what GET /connectors/status settles with: a rejection, no data, data that
\* is not an array, or an array of connectors (googleWorkspace, slack) whose
\* isEnabled may be missing
StatusResponses ==
    {[kind |-> "rejected", message |-> text] :
        text \in {"Network Error", "Request failed with status code 500"}}
    \cup {[kind |-> "empty"], [kind |-> "object"]}
    \cup {[kind |-> "array", data |-> data] :
            data \in UNION {[keys -> {Bool(TRUE), Bool(FALSE), UNDEFINED}] :
                               keys \in SUBSET {"googleWorkspace", "slack"}}}

\* lines 130-141, and fetchConnectorStatuses up to its await, lines 100-104
MountConnectorSettings ==
    /\ fetching = "mount"
    /\ configuredStatus' = [id \in ConnectorList |-> Bool(FALSE)]
    /\ enabledStatus' = [id \in ConnectorList |-> FALSE]
    /\ connectorsIsLoading' = TRUE
    /\ fetching' = "status"
    /\ lastCall' = [op |-> "mountConnectorSettings"]
    /\ UNCHANGED <<errorMessage, currentConnector, checkingConfigs>>
    /\ UNCHANGED outsideConnectors

\* lines 104-127: the status GET has settled; on success
\* checkConnectorConfigurations starts, lines 78-82
StatusFetchSettles ==
    /\ fetching = "status"
    /\ \E response \in StatusResponses :
          /\ IF response.kind \in {"array", "empty"}
             THEN /\ enabledStatus' =
                        IF response.kind = "empty" THEN << >>
                        ELSE [key \in DOMAIN response.data |-> Boolean(response.data[key])]
                  /\ checkingConfigs' = TRUE
                  /\ fetching' = "config"
                  /\ UNCHANGED <<errorMessage, connectorsIsLoading>>
             ELSE /\ errorMessage' =
                        Err(<<"Failed to load connector settings",
                              IF response.kind = "rejected" THEN response.message
                              ELSE "data.forEach is not a function">>)
                  /\ connectorsIsLoading' = FALSE
                  /\ fetching' = "done"
                  /\ UNCHANGED <<enabledStatus, checkingConfigs>>
          /\ lastCall' = [op |-> "statusFetchSettles", kind |-> response.kind]
    /\ UNCHANGED <<currentConnector, configuredStatus>>
    /\ UNCHANGED outsideConnectors

\* lines 82-96 and 121-126: fetchConnectorConfig has returned null after a
\* failure, or response.data, which may be missing (lines 48-61)
ConnectorConfigSettles ==
    /\ fetching = "config"
    /\ \E value \in {NULL, UNDEFINED, [googleClientId |-> "c0"]} :
          configuredStatus' = [id \in {"googleWorkspace"} |-> value]
    /\ checkingConfigs' = FALSE
    /\ connectorsIsLoading' = FALSE
    /\ fetching' = "done"
    /\ lastCall' = [op |-> "connectorConfigSettles"]
    /\ UNCHANGED <<errorMessage, currentConnector, enabledStatus>>
    /\ UNCHANGED outsideConnectors

\* line 222: the error alert is closed
OnErrorClose ==
    /\ errorMessage # NULL
    /\ errorMessage' = NULL
    /\ lastCall' = [op |-> "errorClose"]
    /\ UNCHANGED <<connectorsIsLoading, currentConnector, checkingConfigs, configuredStatus,
                   enabledStatus, fetching>>
    /\ UNCHANGED outsideConnectors

\* lines 143-148
handleConfigureConnector ==
    /\ fetching # "mount"
    /\ \E connectorId \in ConnectorList :
          /\ currentConnector # Str(connectorId)
          /\ currentConnector' = Str(connectorId)
    /\ lastCall' = [op |-> "handleConfigureConnector"]
    /\ UNCHANGED <<connectorsIsLoading, errorMessage, checkingConfigs, configuredStatus,
                   enabledStatus, fetching>>
    /\ UNCHANGED outsideConnectors

\* ------------------------------------------------------- specifications
InitHighlighter ==
    /\ pdfUrl = "a.pdf"
    /\ citations = Absent
    /\ highlights = <<>>
    /\ processedCitations = <<>>
    /\ diagnostics = <<>>

InitSearch ==
    /\ searchInputValue = ""
    /\ searchQuery = ""
    /\ hasSearched = FALSE
    /\ observer = [current |-> FALSE, observing |-> {}]
    /\ searchResults = <<>>
    /\ loading = FALSE
    /\ topK = INITIAL_TOPK
    /\ activeQuery = ""
    /\ generation = 0
    /\ inflight = {}
    /\ error = FALSE
    /\ mounted = TRUE

InitView == shown = {}

InitDialog ==
    /\ open = FALSE
    /\ serviceType = NoService
    /\ isValid = FALSE
    /\ isSaving = FALSE
    /\ dialogError = NULL
    /\ saves = {}
    /\ session = 0
    /\ started = 0

\* lines 78-97, and the mount effect has started initializeForm
InitForm ==
    /\ formData = [clientId |-> "", clientSecret |-> "", redirectUri |-> <<>>]
    /\ errors = {}
    /\ formIsLoading = TRUE
    /\ formIsSaving = FALSE
    /\ saveError = NULL
    /\ saveSuccess = FALSE
    /\ isConfigured = FALSE
    /\ fileName = NULL
    /\ fileUploadError = NULL
    /\ redirectUris = NULL
    /\ initStep = "uris"
    /\ reads = {}
    /\ posts = 0

\* lines 39-45
InitConnectors ==
    /\ connectorsIsLoading = FALSE
    /\ errorMessage = NULL
    /\ currentConnector = NULL
    /\ checkingConfigs = TRUE
    /\ configuredStatus = << >>
    /\ enabledStatus = << >>
    /\ fetching = "mount"

Init ==
    /\ InitHighlighter
    /\ InitSearch
    /\ lastCall = [op |-> "mount"]
    /\ request = NoRequest
    /\ validation = Pending
    /\ InitView
    /\ InitDialog
    /\ InitForm
    /\ InitConnectors

Next ==
    \/ SetCitations(ComponentBatches)
    \/ SetPdfUrl
    \/ OnConfirm
    \/ OnAreaChange

Spec == Init /\ [][Next]_vars

\* the mapper alone: one batch of citations, mapped again on every pdfUrl
LoadBatch ==
    /\ ~citations.present
    /\ SetCitations(Batches(MapperCitations))

NextMapper ==
    \/ LoadBatch
    \/ SetPdfUrl

SpecMapper == Init /\ [][NextMapper]_vars

\* the mapper's diagnostics: one batch of up to MaxDiagnosticBatch citations
DiagnosticCitations ==
    {Citation(TRUE, TRUE, Box(Origin, Corner, 4), 1, "abc123", "t"),
     Citation(TRUE, TRUE, Box(Origin, Corner, 2), 1, "abc123", "t"),
     Citation(FALSE, FALSE, <<>>, 0, "", "t")}

DiagnosticBatches == UNION {[1..n -> DiagnosticCitations] : n \in 0..MaxDiagnosticBatch}

LoadDiagnosticBatch ==
    /\ ~citations.present
    /\ SetCitations(DiagnosticBatches)

NextDiagnostics ==
    \/ LoadDiagnosticBatch
    \/ SetPdfUrl

SpecDiagnostics == Init /\ [][NextDiagnostics]_vars

\* the search view and its aggregator
NextSearch ==
    \/ handleInputChange
    \/ OnSearchClick
    \/ handleKeyPress
    \/ clearSearch
    \/ ScrollToSentinel
    \/ FetchSucceeds
    \/ FetchFails
    \/ Unmount

SpecSearch == Init /\ [][NextSearch]_vars

\* the configuration dialog
NextDialog ==
    \/ OpenDialog
    \/ CloseDialog
    \/ handleValidationChange
    \/ handleSaveClick
    \/ SaveSettles

SpecDialog == Init /\ [][NextDialog]_vars

\* the Google Workspace configuration form
NextForm ==
    \/ UrisFetchSettles
    \/ FormConfigFetchSettles
    \/ OnFieldChange
    \/ handleFileChange
    \/ FileReadSettles
    \/ handleSave
    \/ PostSettles

SpecForm == Init /\ [][NextForm]_vars

\* the view of KnowledgeSearch as a function of hasSearched and of the props
\* loading and searchResults, which the parent owns
InitRender ==
    /\ InitHighlighter
    /\ searchInputValue \in Inputs
    /\ searchQuery = searchInputValue
    /\ hasSearched \in BOOLEAN
    /\ observer = [current |-> FALSE, observing |-> {}]
    /\ searchResults \in {Page(Fetch(1, "query", q, 0), m) :
                              q \in Inputs \ {""}, m \in 0..MaxViewResults}
    /\ loading \in BOOLEAN
    /\ topK = INITIAL_TOPK
    /\ activeQuery = searchQuery
    /\ generation = 0
    /\ inflight = {}
    /\ error = FALSE
    /\ mounted = TRUE
    /\ lastCall = [op |-> "mount"]
    /\ request = NoRequest
    /\ validation = Pending
    /\ InitView
    /\ InitDialog
    /\ InitForm
    /\ InitConnectors

NextView == renderView

SpecView == InitRender /\ [][NextView]_vars

\* the connector settings page
NextConnectors ==
    \/ MountConnectorSettings
    \/ StatusFetchSettles
    \/ ConnectorConfigSettles
    \/ OnErrorClose
    \/ handleConfigureConnector

SpecConnectors == Init /\ [][NextConnectors]_vars

\* the effect runs after the first render and each GET settles: axios resolves
\* or rejects every request
SpecConnectorsLive ==
    /\ SpecConnectors
    /\ WF_vars(MountConnectorSettings)
    /\ WF_vars(StatusFetchSettles)
    /\ WF_vars(ConnectorConfigSettles)

\* the validator alone: one request, validated once
InitValidator ==
    /\ InitHighlighter
    /\ InitSearch
    /\ lastCall = [op |-> "mount"]
    /\ request \in Requests
    /\ validation = Pending
    /\ InitView
    /\ InitDialog
    /\ InitForm
    /\ InitConnectors

NextValidator == validate

SpecValidator == InitValidator /\ [][NextValidator]_vars

\* ================================================================ claims
\* a citation whose bounding box has exactly 4 points
WellFormed(c) == c.hasMetadata /\ c.hasBox /\ Len(c.bounding_box) = 4

WithoutHighlight(p) == [f \in DOMAIN p \ {"highlight"} |-> p[f]]

\* C1: the mapper's output holds exactly the citations of the batch whose
\* bounding box has exactly 4 points, in their order, one highlight each; a
\* citation without metadata, without a bounding box, or with a bounding box
\* of another length is left out and the rest of the batch is still mapped.
C1_BatchNeverAborts ==
    LET accepted == SelectSeq(citations.list, WellFormed) IN
    /\ Len(processedCitations) = Len(accepted)
    /\ Len(highlights) = Len(accepted)
    /\ \A i \in 1..Len(accepted) :
          /\ WithoutHighlight(processedCitations[i]) = accepted[i]
          /\ processedCitations[i].highlight = highlights[i]
          /\ highlights[i] # NULL

\* a batch whose first citation has no metadata and whose second is mapped
C1_Witness ==
    /\ citations.present
    /\ Len(citations.list) = 2
    /\ ~citations.list[1].hasMetadata
    /\ WellFormed(citations.list[2])
    /\ Len(highlights) = 1

\* C2: for every accepted citation x1 = corner0.x * pageWidth,
\* y1 = corner0.y * pageHeight, x2 = corner2.x * pageWidth and
\* y2 = corner2.y * pageHeight; corners (0,0) and (1,1) give (0, 0, 967, 747.23)
\* to the hundredth; rects holds exactly the bounding rectangle.
C2_ScaledRectangle ==
    \A i \in 1..Len(processedCitations) :
        LET c == processedCitations[i]
            b == c.bounding_box
            r == c.highlight.position.boundingRect
        IN /\ r.x1 * CoordDen = b[1].x * PAGE_WIDTH
           /\ r.y1 * CoordDen = b[1].y * PAGE_HEIGHT
           /\ r.x2 * CoordDen = b[3].x * PAGE_WIDTH
           /\ r.y2 * CoordDen = b[3].y * PAGE_HEIGHT
           /\ c.highlight.position.rects = <<r>>
           /\ (b[1] = Origin /\ b[3] = Corner) =>
                 /\ r.x1 = 0 /\ r.y1 = 0
                 /\ Hundredths(r.x2) = 96700
                 /\ Hundredths(r.y2) = 74723

\* a mapped citation with corners (0,0) and (1,1), and one with other corners
C2_Witness ==
    /\ \E i \in 1..Len(processedCitations) :
          /\ processedCitations[i].bounding_box[1] = Origin
          /\ processedCitations[i].bounding_box[3] = Corner
          /\ highlights[i].position.boundingRect.y2 = PAGE_HEIGHT
    /\ \E i \in 1..Len(processedCitations) :
          /\ processedCitations[i].bounding_box[1] # Origin
          /\ highlights[i].position.boundingRect.x1 > 0

\* C3: a citation with a non-empty backend identifier gets exactly that
\* identifier as its highlight's id, also when the mapper runs again on the
\* same citations; only a citation without one gets a generated id.
C3_BackendIdentity ==
    [][/\ \A i \in 1..Len(processedCitations') :
             LET c == processedCitations'[i] IN
             /\ c._id # "" => c.highlight.id = c._id
             /\ c._id = "" => c.highlight.id \in getNextId
       /\ (citations' = citations /\ pdfUrl' # pdfUrl) =>
             \A i \in 1..Len(processedCitations) :
                 processedCitations[i]._id # "" =>
                     processedCitations'[i].highlight.id = processedCitations[i].highlight.id
      ]_hvars

\* the mapper has run again (pdfUrl changed) on a batch holding a citation with
\* a backend identifier and one without
C3_Witness ==
    /\ lastCall.op = "pdfUrl"
    /\ \E i \in 1..Len(processedCitations) :
          /\ processedCitations[i]._id = "abc123"
          /\ highlights[i].id = "abc123"
    /\ \E i \in 1..Len(processedCitations) :
          /\ processedCitations[i]._id = ""
          /\ highlights[i].id \in getNextId

\* C4: updateHighlight(id, position, content) changes the single item with that
\* id: the sequence keeps its length and order, that item keeps its index, id
\* and comment and takes the position and content, and every other item is
\* unchanged.
C4_UpdateSingleItem ==
    [][lastCall'.op = "updateHighlight" =>
          /\ Len(highlights') = Len(highlights)
          /\ \A i \in 1..Len(highlights) :
                /\ highlights'[i].id = highlights[i].id
                /\ highlights'[i].comment = highlights[i].comment
                /\ highlights[i].id # lastCall'.highlightId => highlights'[i] = highlights[i]
          /\ Cardinality({i \in 1..Len(highlights) : highlights'[i] # highlights[i]}) <= 1
      ]_hvars

\* C5: addHighlight puts the new highlight, with a generated id, at the front;
\* the sequence grows by one and the highlights held before follow unchanged.
C5_AddPrepends ==
    [][lastCall'.op = "addHighlight" =>
          /\ Len(highlights') = Len(highlights) + 1
          /\ Tail(highlights') = highlights
          /\ Head(highlights').id \in getNextId
          /\ Head(highlights').content = lastCall'.highlight.content
          /\ Head(highlights').position = lastCall'.highlight.position
          /\ Head(highlights').comment =
                IF lastCall'.highlight.comment # NULL THEN lastCall'.highlight.comment
                ELSE [text |-> "", emoji |-> ""]
      ]_hvars

\* a highlight was added in front of two mapped ones
C5_Witness ==
    /\ lastCall.op = "addHighlight"
    /\ Len(processedCitations) = 2
    /\ Len(highlights) = 3
    /\ highlights[2] = processedCitations[1].highlight
    /\ highlights[3] = processedCitations[2].highlight

\* the load-more fetches of the current generation that are in flight
MoreInFlight(fetches, gen) == {f \in fetches : f.kind = "more" /\ f.token = gen}

\* C6: at most one load-more fetch is outstanding at any time, and while
\* loading is true a sentinel crossing starts no fetch and does not advance
\* the cursor: it is dropped.
C6_SingleLoadMore ==
    /\ [](Cardinality(MoreInFlight(inflight, generation)) <= 1)
    /\ [][loading =>
             /\ topK' <= topK
             /\ MoreInFlight(inflight', generation') \subseteq MoreInFlight(inflight, generation)
             /\ lastCall'.op = "sentinel" =>
                   /\ ~lastCall'.delivered
                   /\ UNCHANGED <<topK, inflight, searchResults, loading>>
        ]_vars

\* the sentinel was crossed while a load-more fetch was outstanding
C6_Witness ==
    /\ loading
    /\ lastCall = [op |-> "sentinel", delivered |-> FALSE]
    /\ MoreInFlight(inflight, generation) # {}
    /\ topK = INITIAL_TOPK + TOPK_INCREMENT

\* C7: once query B is submitted, a response to an earlier query A changes
\* nothing, whichever of the two responses arrives first: the visible items
\* are results of B.
C7_StaleResponseDiscarded ==
    /\ [](\A i \in 1..Len(searchResults) : searchResults[i].query = activeQuery)
    /\ [][(lastCall'.op = "fetchSucceeds" /\ lastCall'.fetch.token # generation) =>
             UNCHANGED <<searchResults, loading, topK>>
        ]_vars

\* B's response arrived, then A's, and the items are B's
C7_Witness ==
    /\ lastCall.op = "fetchSucceeds"
    /\ lastCall.stale
    /\ lastCall.fetch.query = "foo"
    /\ Len(lastCall.page) > 0
    /\ activeQuery = "bar"
    /\ inflight = {}
    /\ Len(searchResults) > 0

\* C8 as stated: topK never decreases and changes only by a load-more trigger,
\* which adds exactly 10.
C8_CursorMonotone ==
    [][/\ topK' >= topK
       /\ topK' # topK =>
             /\ lastCall' = [op |-> "sentinel", delivered |-> TRUE]
             /\ topK' = topK + 10
      ]_vars

\* C8 amended: topK changes only by a load-more trigger, which adds exactly 10,
\* or by a query submission or a clear, which resets it to its initial value.
C8_CursorAdvance ==
    [][topK' # topK =>
          \/ /\ lastCall' = [op |-> "sentinel", delivered |-> TRUE]
             /\ topK' = topK + 10
          \/ /\ lastCall'.op \in {"handleSearch", "clearSearch"}
             /\ topK' = INITIAL_TOPK
             /\ generation' # generation
      ]_vars

\* a query was submitted after a load-more of the query before it: the cursor is
\* back at its initial value
C8_Witness ==
    /\ lastCall.op = "handleSearch"
    /\ topK = INITIAL_TOPK
    /\ \E f \in inflight : f.kind = "more" /\ f.token < generation

\* C9: when a load-more fetch completes with m items while n items are held,
\* the items become those n, unchanged and in order, followed by the m.
C9_LoadMoreAppends ==
    [][(/\ lastCall'.op = "fetchSucceeds"
        /\ lastCall'.fetch.kind = "more"
        /\ lastCall'.fetch.token = generation) =>
          /\ Len(searchResults') = Len(searchResults) + Len(lastCall'.page)
          /\ SubSeq(searchResults', 1, Len(searchResults)) = searchResults
          /\ SubSeq(searchResults', Len(searchResults) + 1, Len(searchResults')) = lastCall'.page
      ]_vars

\* a load-more fetch has added a page behind the items held
C9_Witness ==
    /\ lastCall.op = "fetchSucceeds"
    /\ lastCall.fetch.kind = "more"
    /\ ~lastCall.stale
    /\ Len(lastCall.page) > 0
    /\ Len(searchResults) > Len(lastCall.page)

\* C10: submitting a query, from any state, resets the cursor to its initial
\* value, clears the items, sets hasSearched and moves to Loading.
C10_SubmitResets ==
    [][(lastCall'.op = "handleSearch" /\ lastCall'.query # "") =>
          /\ topK' = INITIAL_TOPK
          /\ searchResults' = <<>>
          /\ hasSearched'
          /\ loading'
          /\ \E f \in inflight' : f.token = generation' /\ f.kind = "query"
                                  /\ f.query = lastCall'.query
      ]_vars

\* a query submitted while results were shown and a load-more was outstanding
C10_Witness ==
    /\ lastCall.op = "handleSearch"
    /\ lastCall.query # ""
    /\ loading
    /\ searchResults = <<>>
    /\ \E f \in inflight : f.kind = "more" /\ f.token < generation

\* C11: a failed fetch leaves the items untouched, ends the loading and puts
\* the aggregator in an error state; after a failed fetch for a submitted query
\* with no items held the view is not the 'No results found' state.
C11_FailureDistinguishable ==
    /\ [][(lastCall'.op = "fetchFails" /\ ~lastCall'.stale) =>
             /\ searchResults' = searchResults
             /\ ~loading'
             /\ error'
        ]_vars
    /\ []((/\ lastCall.op = "fetchFails"
           /\ ~lastCall.stale
           /\ lastCall.fetch.kind = "query"
           /\ Len(searchResults) = 0) => ~showNoResultsState)

\* C12: after clearSearch the view is in the initial state, the one shown
\* before any query was submitted, and not in the 'No results found' state.
C12_ClearReturnsToIdle ==
    [][lastCall'.op = "clearSearch" =>
          /\ Len(searchResults') = 0
          /\ showInitialState'
          /\ ~showNoResultsState'
      ]_vars

\* the ids of a sequence of highlights, in order
Ids(seq) == [i \in 1..Len(seq) |-> seq[i].id]

\* what a user-created highlight holds as content, before and after an update
UserContents ==
    {sel.content : sel \in UserSelections}
    \cup {Spread(sel.content, [image |-> "png2"]) : sel \in UserSelections}

\* C13: the highlights are the user-created ones followed by the backend-derived
\* ones in the order of their citations; addHighlight puts the new highlight in
\* front of all others and updateHighlight moves nothing.
C13_NeverReordered ==
    /\ [](LET n == Len(processedCitations)
              k == Len(highlights) - n
          IN /\ k >= 0
             /\ \A i \in 1..n :
                   /\ highlights[k + i].id = processedCitations[i].highlight.id
                   /\ highlights[k + i].comment = processedCitations[i].highlight.comment
                   /\ "text" \in DOMAIN highlights[k + i].content
                   /\ highlights[k + i].content.text = processedCitations[i].content
             /\ \A i \in 1..k : highlights[i].content \in UserContents)
    /\ [][/\ lastCall'.op = "addHighlight" => Ids(Tail(highlights')) = Ids(highlights)
          /\ lastCall'.op = "updateHighlight" => Ids(highlights') = Ids(highlights)
        ]_hvars

\* an area highlight that is not the first item was updated, behind a newer
\* user-created highlight and in front of a backend-derived one
C13_Witness ==
    /\ lastCall.op = "updateHighlight"
    /\ Len(processedCitations) = 1
    /\ Len(highlights) = 3
    /\ highlights[1].content = [text |-> "sel"]
    /\ highlights[2].content = [image |-> "png2"]
    /\ highlights[1].id # highlights[2].id
    /\ highlights[3].id = processedCitations[1].highlight.id

\* C14: the highlights of one mapper invocation have pairwise distinct ids.
C14_DistinctIds ==
    \A i, j \in 1..Len(highlights) : i # j => highlights[i].id # highlights[j].id

\* C15: the id addHighlight gives to a user-created highlight differs from the
\* backend identifier of every citation whose highlight is held.
C15_UserIdDisjoint ==
    [][lastCall'.op = "addHighlight" =>
          \A i \in 1..Len(processedCitations) :
              processedCitations[i]._id # "" =>
                  Head(highlights').id # processedCitations[i]._id
      ]_hvars

\* C16: the observer observes at most one element, and only the current last
\* result; it observes nothing while a fetch is loading and nothing after the
\* view is unmounted; when results are shown and nothing is loading it is armed
\* on the last result.
C16_ObserverRearmed ==
    /\ Cardinality(observer.observing) <= 1
    /\ observer.observing \subseteq lastResultElement(searchResults)
    /\ loading => observer.observing = {}
    /\ ~mounted => observer.observing = {}
    /\ (mounted /\ ~loading /\ showResultsState) =>
          observer.observing = lastResultElement(searchResults)

\* the view was unmounted while the observer was armed on the last result of a
\* list that a load-more had extended
C16_Witness ==
    /\ lastCall.op = "unmount"
    /\ ~mounted
    /\ ~loading
    /\ observer.current
    /\ Len(searchResults) >= 2
    /\ topK > INITIAL_TOPK

\* C17: the highlights the sidebar navigates over (those of processedCitations)
\* and the highlights the overlay renders (highlights) are the same, with the
\* same ids and positions.
C17_SingleSourceOfTruth ==
    {<<highlights[i].id, highlights[i].position>> : i \in 1..Len(highlights)}
    = {<<processedCitations[i].highlight.id, processedCitations[i].highlight.position>> :
          i \in 1..Len(processedCitations)}

\* C18: the rectangle of every accepted citation is scaled with the dimensions
\* pageDimensions gives for its page; the default dimensions are used only for a
\* page whose dimensions are unknown.
C18_PageDimensionsLookup ==
    \A i \in 1..Len(processedCitations) :
        LET b == processedCitations[i].bounding_box
            r == processedCitations[i].highlight.position.boundingRect
            d == pageDimensions(r.pageNumber)
        IN /\ r.width = d.width
           /\ r.height = d.height
           /\ r.x1 * CoordDen = b[1].x * d.width
           /\ r.y1 * CoordDen = b[1].y * d.height
           /\ r.x2 * CoordDen = b[3].x * d.width
           /\ r.y2 * CoordDen = b[3].y * d.height

\* C19: for a batch of n citations of which k are rejected the mapper returns
\* n - k highlights and makes exactly k diagnostic calls, one warning for each
\* rejected citation and none for an accepted one.
C19_OneDiagnosticPerRejected ==
    LET n == Len(citations.list)
        rejected == {i \in 1..n : ~WellFormed(citations.list[i])}
    IN /\ Len(highlights) = n - Cardinality(rejected)
       /\ Len(diagnostics) = Cardinality(rejected)
       /\ \A i \in 1..Len(diagnostics) : diagnostics[i] = "warn"

\* 5 citations of which the third has a bounding box of 2 points: 4 highlights
\* and 1 diagnostic
C19_Witness ==
    /\ Len(citations.list) = 5
    /\ \A i \in {1, 2, 4, 5} : WellFormed(citations.list[i])
    /\ citations.list[3].hasBox
    /\ Len(citations.list[3].bounding_box) = 2
    /\ Len(highlights) = 4
    /\ diagnostics = <<"warn">>

\* a field of the request that is valid whatever page and limit are
OtherFieldsValid(query) ==
    /\ zStringMin1(query.query).success
    /\ zEnumOptional(query.sortBy, {CreatedAt, Title}).success
    /\ zEnumOptional(query.sortOrder, {Asc, Desc}).success

\* the number a supplied page or limit stands for, and the default for an
\* omitted one
Supplied(arg, default) == IF arg = UNDEFINED THEN Num(default) ELSE Number(arg)

\* C20: page and limit are optional: a request is accepted exactly when page is
\* omitted or a number of at least 1 and limit is omitted or a number in
\* 1..100, and then an omitted page is 1 and an omitted limit is 10.
C20_OptionalWithDefaults ==
    (validation # Pending /\ OtherFieldsValid(request)) =>
        LET page == Supplied(request.page, 1)
            limit == Supplied(request.limit, 10)
        IN /\ validation.success <=>
                 /\ page.kind = "number" /\ page.value >= 1
                 /\ limit.kind = "number" /\ limit.value >= 1 /\ limit.value <= 100
           /\ validation.success =>
                 /\ validation.data.page = page.value
                 /\ validation.data.limit = limit.value

\* C21: when handleSave settles without throwing, onSave is called exactly when
\* the result is true, undefined or an object whose success is true; for false
\* or an object whose success is false setDialogError is called with a message,
\* onSave is not called and the dialog stays as it is, showing the message if
\* it is open.
C21_SaveOutcome ==
    [][(lastCall'.op = "saveSettles" /\ lastCall'.result.kind # "throw") =>
          LET r == lastCall'.result
              success == r = Bool(TRUE) \/ r = UNDEFINED \/ (r.kind = "object" /\ r.success)
              failure == r = Bool(FALSE) \/ (r.kind = "object" /\ ~r.success)
          IN /\ (lastCall'.onSave # NULL) <=> success
             /\ failure =>
                   /\ lastCall'.setDialogError # Unset
                   /\ lastCall'.setDialogError # NULL
                   /\ lastCall'.onSave = NULL
                   /\ open' = open
                   /\ open => dialogError' = lastCall'.setDialogError
      ]_vars

\* a save settled with { success: false } while the dialog was open: the dialog
\* shows the error and is still open
C21_Witness ==
    /\ lastCall.op = "saveSettles"
    /\ lastCall.result = SaveResult(FALSE, "")
    /\ lastCall.onSave = NULL
    /\ open
    /\ dialogError = Err("Failed to save configuration")
    /\ ~isSaving

\* C22: when a save that was started in an earlier session of the dialog
\* settles, dialogError and isSaving of the current session do not change.
C22_SessionIsolation ==
    [][(lastCall'.op = "saveSettles" /\ lastCall'.save.session # session) =>
          /\ dialogError' = dialogError
          /\ isSaving' = isSaving
      ]_vars

\* C27: at most one handleSave call is outstanding, isSaving is true while one
\* is, and Save is clicked only while isValid is true and isSaving is false.
C27_SingleSaveInFlight ==
    /\ [](Cardinality(saves) <= 1)
    /\ [](saves # {} => isSaving)
    /\ [][lastCall'.op = "handleSaveClick" => (isValid /\ ~isSaving)]_vars

\* C23: once initializeForm has completed, formData.redirectUri is the
\* recommended redirect URI, and no edit of a field (the redirectUri field
\* included), credentials file or save changes it.
C23_RedirectUriFixed ==
    /\ [](initStep = "done" => formData.redirectUri = redirectUris.recommendedRedirectUri)
    /\ [][initStep = "done" => formData'.redirectUri = formData.redirectUri]_vars

\* after initialization the user edited the redirectUri field, and a
\* credentials file then replaced the client id and secret
C23_Witness ==
    /\ initStep = "done"
    /\ lastCall.op = "fileRead"
    /\ formData.clientId = "c2"
    /\ fileUploadError = NULL
    /\ redirectUris.urisMismatch
    /\ formData.redirectUri = frontendUrl(<<"https://app", "/">>)

\* C24: whatever hasSearched, loading and the number of results are, exactly
\* one of the initial, loading, no-results and results views is rendered.
C24_ExactlyOneView == lastCall.op = "render" => Cardinality(shown) = 1

\* C25: handleSearch runs, from the Search button or from the Enter key, only
\* when the search input is non-empty and no fetch is loading.
C25_SubmitGuarded ==
    [][lastCall'.op = "handleSearch" => (searchInputValue # "" /\ ~loading)]_vars

\* C26: when citations or pdfUrl change, highlights become exactly the
\* highlights mapped from the current citations, one per accepted citation in
\* order, whatever was held before (user-created highlights are dropped), and
\* processedCitations the accepted citations; with absent or empty citations
\* both become empty.
C26_ReplacedWholesale ==
    [][lastCall'.op \in {"citations", "pdfUrl"} =>
          LET accepted == SelectSeq(citations'.list, WellFormed) IN
          /\ Len(processedCitations') = Len(accepted)
          /\ Len(highlights') = Len(accepted)
          /\ \A i \in 1..Len(accepted) :
                /\ WithoutHighlight(processedCitations'[i]) = accepted[i]
                /\ highlights'[i] = processedCitations'[i].highlight
                /\ highlights'[i].content = [text |-> accepted[i].content]
          /\ (~citations'.present \/ citations'.list = <<>>) =>
                (highlights' = <<>> /\ processedCitations' = <<>>)
      ]_hvars

\* pdfUrl changed while three highlights were held, two of them user-created:
\* only the highlight of the one citation is left
C26_Witness ==
    /\ lastCall.op = "pdfUrl"
    /\ lastCall.replaced = 3
    /\ Len(processedCitations) = 1
    /\ highlights = <<processedCitations[1].highlight>>

\* C28: once the status fetch started at mount has settled, with success or
\* with failure, isLoading and checkingConfigs are eventually both false.
C28_LoadingEnds ==
    (fetching \in {"config", "done"}) ~> (~connectorsIsLoading /\ ~checkingConfigs)

====
